---- MODULE Spec2Model ----
(***************************************************************************)
(* Chunkwise terrain classification and water-body merging of Advanced.py  *)
(* (gdmc_http_client_python).                                              *)
(*                                                                         *)
(* Python strings (biome names, block identifiers, body names) are         *)
(* sequences of one-character strings, so that the substring, prefix and   *)
(* suffix tests of the source are computed as the source computes them.    *)
(* Python lists are sequences.  The gdpc helpers the script imports        *)
(* (loop2d, flood_search_3D, buildlocal2global, lookup, the world slice)   *)
(* are modelled from their stated contracts.                               *)
(***************************************************************************)
EXTENDS Integers, Sequences, FiniteSets, TLC

VARIABLES
    pc,             \* position of the top-level script
    caching,        \* gi.setCaching state
    span,           \* <<XCHUNKSPAN, ZCHUNKSPAN>> of the global slice
    biomeAt,        \* world slice: primary biome near each chunk origin
    world,          \* the blocks of the world that are stored explicitly
    chunk_info,     \* chunk record per chunk coordinate
    heightmap,      \* MOTION_BLOCKING_NO_LEAVES heightmap, column -> y
    cursor,         \* <<cx, cz, jx, jz>> of the sub-chunk scan / chunk of debug
    obs_struc,      \* observed structure coordinates of the current chunk
    obs_fluid,      \* observed fluid coordinates of the current chunk
    to_avoid,       \* coordinate -> reason
    waterways,      \* coordinate -> body name
    waterbody_info, \* body name -> record
    placeLog,       \* caching state seen by each geo.placeVolume call
    err,            \* "none", or the exception that ended the script
    lastFlood,      \* the last flood_search_3D call of the scan
    nameIn,         \* naming check: <<pbiome, cx, cz, len(result)>>
    nameOut,        \* naming check: the name computed
    hstart          \* refiner check: the height first sampled

vars == <<pc, caching, span, biomeAt, world, chunk_info, heightmap, cursor,
          obs_struc, obs_fluid, to_avoid, waterways, waterbody_info, placeLog,
          err, lastFlood, nameIn, nameOut, hstart>>

----------------------------------------------------------------------------
(* Bounds of the model *)

MaxXChunkSpan == 2
MaxZChunkSpan == 3
SurfaceY == 4
DescentCap == 2
MaxChunkCoord == 2

(* Program constants *)

ChunkSize == 16
SUB_CHUNK_RES == 4
MaxBuildY == 255
LakeSize == 256
STARTX == 0
STARTY == 0
STARTZ == 0

(* The lowest elevation of the world (a build area starts at STARTY). *)
WorldMinY == STARTY

----------------------------------------------------------------------------
(* Python string and list operations *)

Range(s) == {s[i] : i \in 1..Len(s)}

\* sub in s
Contains(sub, s) ==
    \E i \in 0..(Len(s) - Len(sub)) : SubSeq(s, i + 1, i + Len(sub)) = sub

\* s[-n:]
Suffix(s, n) == IF Len(s) <= n THEN s ELSE SubSeq(s, Len(s) - n + 1, Len(s))

\* s[:n]
Prefix(s, n) == IF Len(s) <= n THEN s ELSE SubSeq(s, 1, n)

\* lst + [e] if e not in lst
AppendNew(lst, e) == IF e \in Range(lst) THEN lst ELSE Append(lst, e)

Digits == <<"0","1","2","3","4","5","6","7","8","9">>

\* str(n) of a non-negative integer, as an f-string formats it
RECURSIVE Dec(_)
Dec(n) == IF n < 10 THEN <<Digits[n + 1]>>
          ELSE Dec(n \div 10) \o <<Digits[(n % 10) + 1]>>

----------------------------------------------------------------------------
(* String literals of the source *)

K_snowy == <<"s","n","o","w","y">>
K_ocean == <<"o","c","e","a","n">>
K_swamp == <<"s","w","a","m","p">>
K_river == <<"r","i","v","e","r">>
K_pond == <<"p","o","n","d">>
K_lake == <<"l","a","k","e">>
K_log == <<"_","l","o","g">>
K_leaves == <<"_","l","e","a","v","e","s">>

ForestWords == { <<"f","o","r","e","s","t">>, <<"t","a","i","g","a">>,
                 <<"g","r","o","v","e">>, <<"w","o","o","d","e","d">> }
WaterWords == { K_ocean, K_swamp }
WaterAdjacentWords == { <<"b","e","a","c","h">>, K_river,
                        <<"s","h","o","r","e">> }
HarshWords == { <<"p","e","a","k","s">>, <<"h","i","l","l","s">>,
                <<"m","o","u","n","t","a","i","n","s">>,
                <<"w","i","n","d","s","w","e","p","t">>,
                <<"e","r","o","d","e","d">> }
FlatWords == { <<"p","l","a","i","n","s">>, <<"m","e","a","d","o","w">>,
               <<"f","i","e","l","d","s">>, <<"s","p","a","r","s","e">>,
               <<"p","l","a","t","e","a","u">>, <<"d","e","s","e","r","t">> }

(* Block identifiers and the lookup tables of gdpc.lookup *)

B_air == <<"m","i","n","e","c","r","a","f","t",":","a","i","r">>
B_void_air == <<"m","i","n","e","c","r","a","f","t",":","v","o","i","d","_","a","i","r">>
B_cave_air == <<"m","i","n","e","c","r","a","f","t",":","c","a","v","e","_","a","i","r">>
B_stone == <<"m","i","n","e","c","r","a","f","t",":","s","t","o","n","e">>
B_water == <<"m","i","n","e","c","r","a","f","t",":","w","a","t","e","r">>
B_planks == <<"m","i","n","e","c","r","a","f","t",":","o","a","k","_","p","l","a","n","k","s">>
B_log == <<"m","i","n","e","c","r","a","f","t",":","o","a","k","_","l","o","g">>
B_leaves == <<"m","i","n","e","c","r","a","f","t",":","o","a","k","_","l","e","a","v","e","s">>

AIR == { B_air, B_void_air, B_cave_air }
FLUID == { B_water }
ARTIFICIAL == { B_planks }

(* Biome names the world slice can report *)

Bm_river == K_river
Bm_frozen_river == <<"f","r","o","z","e","n","_","r","i","v","e","r">>
Bm_ocean == K_ocean
Bm_deep_ocean == <<"d","e","e","p","_","o","c","e","a","n">>
Bm_swamp == K_swamp
Bm_swamp_hills == <<"s","w","a","m","p","_","h","i","l","l","s">>
Bm_plains == <<"p","l","a","i","n","s">>
Bm_snowy_taiga_hills == <<"s","n","o","w","y","_","t","a","i","g","a","_","h","i","l","l","s">>
Bm_swamp_ocean == <<"s","w","a","m","p","_","o","c","e","a","n">>
Bm_empty == << >>

----------------------------------------------------------------------------
(* chunk_biome_analysis: the designations derived from a primary biome *)

HasAny(words, s) == \E w \in words : Contains(w, s)

Classify(pbiome) ==
    LET d0 == << >>
        d1 == IF Contains(K_snowy, pbiome) THEN Append(d0, "snowy") ELSE d0
        d2 == IF HasAny(ForestWords, pbiome) THEN Append(d1, "forest") ELSE d1
        d3 == IF HasAny(WaterWords, pbiome) THEN Append(d2, "water")
              ELSE IF HasAny(WaterAdjacentWords, pbiome)
                   THEN Append(d2, "water-adjacent")
                   ELSE d2
        d4 == IF HasAny(HarshWords, pbiome) THEN Append(d3, "harsh")
              ELSE IF HasAny(FlatWords, pbiome) THEN Append(d3, "flat")
                   ELSE d3
    IN d4

----------------------------------------------------------------------------
(* Body naming of the sub-chunk scan *)

FormatName(kind, cx, cz) == kind \o <<"-">> \o Dec(cx) \o <<"-">> \o Dec(cz)

BodyName_inclusive(pbiome, cx, cz, size) ==
    IF Suffix(pbiome, 5) = K_ocean THEN FormatName(K_ocean, cx, cz)
    ELSE IF pbiome = K_river THEN FormatName(K_river, cx, cz)
    ELSE IF Prefix(pbiome, 5) = K_swamp THEN FormatName(K_swamp, cx, cz)
    ELSE IF size <= LakeSize THEN FormatName(K_pond, cx, cz)
    ELSE FormatName(K_lake, cx, cz)

BodyName(pbiome, cx, cz, size) ==
    IF Suffix(pbiome, 5) = K_ocean THEN FormatName(K_ocean, cx, cz)
    ELSE IF pbiome = K_river THEN FormatName(K_river, cx, cz)
    ELSE IF Prefix(pbiome, 5) = K_swamp THEN FormatName(K_swamp, cx, cz)
    ELSE IF size < LakeSize THEN FormatName(K_pond, cx, cz)
    ELSE FormatName(K_lake, cx, cz)

----------------------------------------------------------------------------
(* The world as the interface reports it *)

\* interface.getBlock: explicitly stored blocks, void below the world, air
\* above the surface level, stone elsewhere.
GetBlock(x, y, z) ==
    IF <<x, y, z>> \in DOMAIN world THEN world[<<x, y, z>>]
    ELSE IF y < WorldMinY THEN B_void_air
    ELSE IF y > SurfaceY THEN B_air
    ELSE B_stone

\* intf.buildlocal2global: translation by the build-area origin
BuildLocal2Global(x, y, z) == <<x + STARTX, y + STARTY, z + STARTZ>>

----------------------------------------------------------------------------
(* calculateTreelessHeightmap *)

Strippable_noLeaves(block) ==
    \/ Suffix(block, 4) = K_log
    \/ block \in AIR

\* the condition under which the loop decrements the height
Strippable(block) ==
    \/ Suffix(block, 4) = K_log
    \/ Suffix(block, 7) = K_leaves
    \/ block \in AIR

\* worldSlice.rect origin (area[0], area[1])
AreaX == STARTX
AreaZ == STARTZ

\* the value the while loop leaves in heightmap[x, z], for a column that
\* has a block the loop stops at
RECURSIVE TreelessHeight(_, _, _)
TreelessHeight(x, z, y) ==
    IF Strippable(GetBlock(AreaX + x, y, AreaZ + z))
    THEN TreelessHeight(x, z, y - 1)
    ELSE y

----------------------------------------------------------------------------
(* gdpc helpers *)

\* toolbox.loop2d(dx, dz): x outer, z inner
Loop2d(dx, dz) == (0..(dx - 1)) \X (0..(dz - 1))
LoopLast(dx, dz) == <<dx - 1, dz - 1>>
LoopNext(p, dz) == IF p[2] + 1 < dz THEN <<p[1], p[2] + 1>> ELSE <<p[1] + 1, 0>>

\* Python list indexing: a negative index counts from the end
PyIndexOk(i, len) == -len <= i /\ i < len

Abs(n) == IF n < 0 THEN -n ELSE n

\* the 6 face neighbours, or the 26 neighbours of the 3x3x3 cube
Adjacent(a, b, diagonal) ==
    LET dx == Abs(a[1] - b[1])
        dy == Abs(a[2] - b[2])
        dz == Abs(a[3] - b[3])
    IN /\ a # b
       /\ dx <= 1 /\ dy <= 1 /\ dz <= 1
       /\ diagonal \/ dx + dy + dz = 1

\* inside the inclusive bound box
InBox(c, lo, hi) ==
    /\ lo[1] <= c[1] /\ c[1] <= hi[1]
    /\ lo[2] <= c[2] /\ c[2] <= hi[2]
    /\ lo[3] <= c[3] /\ c[3] <= hi[3]

Visitable(c, lo, hi, category, observed) ==
    /\ InBox(c, lo, hi)
    /\ GetBlock(c[1], c[2], c[3]) \in category
    /\ c \notin observed

\* Only explicitly stored blocks can belong to a category: every other
\* block is stone, air or void air.
RECURSIVE Grow(_, _, _, _, _, _)
Grow(region, lo, hi, category, observed, diagonal) ==
    LET more == {c \in DOMAIN world \ region :
                    /\ Visitable(c, lo, hi, category, observed)
                    /\ \E r \in region : Adjacent(r, c, diagonal)}
    IN IF more = {} THEN region
       ELSE Grow(region \cup more, lo, hi, category, observed, diagonal)

\* toolbox.flood_search_3D: the connected region of the seed; the newly
\* observed coordinates are the region itself
FloodSearch3D(seed, lo, hi, category, observed, diagonal) ==
    IF Visitable(seed, lo, hi, category, observed)
    THEN Grow({seed}, lo, hi, category, observed, diagonal)
    ELSE {}

\* the orders in which a list can hold the elements of a set
RECURSIVE Orders(_)
Orders(S) ==
    IF S = {} THEN { << >> }
    ELSE UNION { {<<e>> \o t : t \in Orders(S \ {e})} : e \in S }

----------------------------------------------------------------------------
(* State of the script *)

XSPAN == span[1]
ZSPAN == span[2]
Chunks == Loop2d(XSPAN, ZSPAN)

chunk_info_template ==
    [designations |-> << >>, primary_biome |-> "None", biomes |-> {}]

\* GLOBALSLICE.getPrimaryBiomeNear / getBiomesNear at a chunk origin
GetPrimaryBiomeNear(x, z) ==
    biomeAt[<<(x - STARTX) \div ChunkSize, (z - STARTZ) \div ChunkSize>>]
GetBiomesNear(x, z) == { GetPrimaryBiomeNear(x, z) }

\* the columns the sub-chunk scan samples
SampleColumns(sp) ==
    { <<c[1] * ChunkSize + j[1] * SUB_CHUNK_RES,
        c[2] * ChunkSize + j[2] * SUB_CHUNK_RES>> :
        c \in Loop2d(sp[1], sp[2]), j \in Loop2d(SUB_CHUNK_RES, SUB_CHUNK_RES) }

NoFlood ==
    [kind |-> "none", chunk |-> <<0, 0>>, lo |-> <<0, 0, 0>>,
     hi |-> <<0, 0, 0>>, result |-> {}, name |-> << >>, owned |-> << >>,
     before |-> << >>, reads |-> {}]

----------------------------------------------------------------------------
(* Worlds of the script specification: a row of blocks across the border   *)
(* of chunks (0,0) and (0,1) holding a run of water, a chain of planks     *)
(* reaching the same border, and a separate water block in chunk (0,1).    *)

Border == ChunkSize
WaterRow == { <<STARTX, SurfaceY, STARTZ + z>> : z \in (Border - 4)..(Border + 4) }
PlankChain == << <<STARTX + 4, SurfaceY, STARTZ + Border - 4>>,
                 <<STARTX + 5, SurfaceY, STARTZ + Border - 3>>,
                 <<STARTX + 5, SurfaceY, STARTZ + Border - 2>>,
                 <<STARTX + 5, SurfaceY, STARTZ + Border - 1>>,
                 <<STARTX + 5, SurfaceY, STARTZ + Border>> >>
Pond == <<STARTX + 8, SurfaceY, STARTZ + Border + 4>>
Cells == WaterRow \cup Range(PlankChain) \cup {Pond}

WaterRuns == { r \in {Border - 4, Border - 1, Border + 4}
                     \X {Border - 4, Border, Border + 1, Border + 4} :
                 r[1] <= r[2] } \cup { <<1, 0>> }
PlankRuns == {0, Len(PlankChain) - 1, Len(PlankChain)}
ScanBiomes == { Bm_river, Bm_deep_ocean, Bm_plains, Bm_snowy_taiga_hills }
Spans == {MaxXChunkSpan} \X {MaxZChunkSpan - 1, MaxZChunkSpan}

WorldOf(run, planks, pond) ==
    [c \in Cells |->
        IF c \in WaterRow
        THEN IF run[1] <= c[3] - STARTZ /\ c[3] - STARTZ <= run[2]
             THEN B_water ELSE B_stone
        ELSE IF c = Pond
        THEN IF pond THEN B_water ELSE B_stone
        ELSE IF \E i \in 1..planks : PlankChain[i] = c
             THEN B_planks ELSE B_stone]

Init ==
    /\ pc = "start"
    /\ caching = FALSE
    /\ span \in Spans
    /\ \E even \in ScanBiomes, odd \in ScanBiomes :
          biomeAt = [c \in Chunks |-> IF c[2] % 2 = 0 THEN even ELSE odd]
    /\ \E run \in WaterRuns, planks \in PlankRuns, pond \in BOOLEAN :
          world = WorldOf(run, planks, pond)
    /\ chunk_info = [c \in Chunks |-> chunk_info_template]
    /\ heightmap = [c \in SampleColumns(span) |-> SurfaceY + 1]
    /\ cursor = <<0, 0, 0, 0>>
    /\ obs_struc = {}
    /\ obs_fluid = {}
    /\ to_avoid = << >>
    /\ waterways = << >>
    /\ waterbody_info = << >>
    /\ placeLog = << >>
    /\ err = "none"
    /\ lastFlood = NoFlood
    /\ nameIn = << >>
    /\ nameOut = << >>
    /\ hstart = 0

----------------------------------------------------------------------------
(* The top-level script *)

\* gi.setCaching(True)
SetCachingOn ==
    /\ pc = "start"
    /\ caching' = TRUE
    /\ pc' = "biomes"
    /\ UNCHANGED <<span, biomeAt, world, chunk_info, heightmap, cursor,
                   obs_struc, obs_fluid, to_avoid, waterways, waterbody_info,
                   placeLog, err, lastFlood, nameIn, nameOut, hstart>>

\* one iteration of the loop of chunk_biome_analysis
ChunkBiomeAnalysis ==
    /\ pc = "biomes"
    /\ LET x == cursor[1]
           z == cursor[2]
           pbiome == GetPrimaryBiomeNear(STARTX + x * ChunkSize,
                                         STARTZ + z * ChunkSize)
           nxt == LoopNext(<<x, z>>, ZSPAN)
       IN /\ chunk_info' = [chunk_info EXCEPT ![<<x, z>>] =
                [designations |-> Classify(pbiome),
                 primary_biome |-> pbiome,
                 biomes |-> GetBiomesNear(STARTX + x * ChunkSize,
                                          STARTZ + z * ChunkSize)]]
          /\ IF <<x, z>> = LoopLast(XSPAN, ZSPAN)
             THEN pc' = "heights" /\ cursor' = <<0, 0, 0, 0>>
             ELSE pc' = pc /\ cursor' = <<nxt[1], nxt[2], 0, 0>>
    /\ UNCHANGED <<caching, span, biomeAt, world, heightmap, obs_struc,
                   obs_fluid, to_avoid, waterways, waterbody_info, placeLog,
                   err, lastFlood, nameIn, nameOut, hstart>>

\* heightmap = calculateTreelessHeightmap(); every column of these worlds
\* has a block the loop stops at
CalculateTreelessHeightmap ==
    /\ pc = "heights"
    /\ heightmap' = [c \in DOMAIN heightmap |->
                        TreelessHeight(c[1], c[2], heightmap[c])]
    /\ pc' = "scan"
    /\ UNCHANGED <<caching, span, biomeAt, world, chunk_info, cursor,
                   obs_struc, obs_fluid, to_avoid, waterways, waterbody_info,
                   placeLog, err, lastFlood, nameIn, nameOut, hstart>>

----------------------------------------------------------------------------
(* 4x4-resolution block analysis: one sample point per step *)

CX == cursor[1]
CZ == cursor[2]
LocalX == CX * ChunkSize + cursor[3] * SUB_CHUNK_RES
LocalZ == CZ * ChunkSize + cursor[4] * SUB_CHUNK_RES
SampleY == heightmap[<<LocalX, LocalZ>>]
Sample ==
    LET g == BuildLocal2Global(LocalX, 0, LocalZ) IN <<g[1], SampleY, g[3]>>
SampleBlock == GetBlock(Sample[1], Sample[2], Sample[3])

chunkstart(cx, cz) == BuildLocal2Global(cx * ChunkSize, 0, cz * ChunkSize)
chunkend(cx, cz) ==
    BuildLocal2Global(cx * ChunkSize + 16, MaxBuildY, cz * ChunkSize + 16)
overlap_chunkstart(cx, cz) ==
    <<chunkstart(cx, cz)[1] - 1, chunkstart(cx, cz)[2], chunkstart(cx, cz)[3] - 1>>
overlap_chunkend(cx, cz) ==
    <<chunkend(cx, cz)[1] + 1, chunkend(cx, cz)[2], chunkend(cx, cz)[3] + 1>>

LastSample == <<cursor[3], cursor[4]>> = LoopLast(SUB_CHUNK_RES, SUB_CHUNK_RES)

\* the loop bookkeeping after a sample: the next sample point, the next
\* chunk (whose observed lists start empty), or the end of the scan
Advance(struc, fluid) ==
    LET j == LoopNext(<<cursor[3], cursor[4]>>, SUB_CHUNK_RES)
        c == LoopNext(<<CX, CZ>>, ZSPAN)
    IN IF ~LastSample
       THEN /\ cursor' = <<CX, CZ, j[1], j[2]>>
            /\ obs_struc' = struc
            /\ obs_fluid' = fluid
            /\ pc' = pc
       ELSE /\ obs_struc' = {}
            /\ obs_fluid' = {}
            /\ IF <<CX, CZ>> = LoopLast(XSPAN, ZSPAN)
               THEN pc' = "report" /\ cursor' = <<0, 0, 0, 0>>
               ELSE pc' = pc /\ cursor' = <<c[1], c[2], 0, 0>>

IsStructureHit == SampleBlock \in ARTIFICIAL /\ Sample \notin DOMAIN to_avoid
IsWaterHit ==
    /\ ~IsStructureHit
    /\ SampleBlock \in FLUID
    /\ Sample \notin DOMAIN waterways

Tagged(tag) ==
    [chunk_info EXCEPT ![<<CX, CZ>>].designations = AppendNew(@, tag)]

\* the structure branch of a sample point
ScanStructure ==
    /\ pc = "scan"
    /\ IsStructureHit
    /\ LET result == FloodSearch3D(Sample, chunkstart(CX, CZ), chunkend(CX, CZ),
                                   ARTIFICIAL, obs_struc, TRUE)
       IN /\ chunk_info' = Tagged("structure")
          /\ to_avoid' = [c \in DOMAIN to_avoid \cup result |->
                            IF c \in result THEN "Artificial structure detected"
                            ELSE to_avoid[c]]
          /\ lastFlood' = [NoFlood EXCEPT !.kind = "structure",
                              !.chunk = <<CX, CZ>>,
                              !.lo = chunkstart(CX, CZ),
                              !.hi = chunkend(CX, CZ),
                              !.result = result]
          /\ Advance(obs_struc \cup result, obs_fluid)
    /\ UNCHANGED <<caching, span, biomeAt, world, heightmap, waterways,
                   waterbody_info, placeLog, err, nameIn, nameOut, hstart>>

\* the indices of the four chunk_info lookups that compute `surrounding`,
\* in evaluation order
SurroundingReads(cx, cz) ==
    << <<cx + 1, cz + 1>>, <<cx - 1, cz + 1>>, <<cx + 1, cz - 1>>,
       <<cx - 1, cz - 1>> >>

ReadOk(r) == PyIndexOk(r[1], XSPAN) /\ PyIndexOk(r[2], ZSPAN)
SurroundingOk(cx, cz) == \A r \in Range(SurroundingReads(cx, cz)) : ReadOk(r)

\* the lookups made before (and including) the first one that raises
ReadsMade(cx, cz) ==
    LET rs == SurroundingReads(cx, cz)
    IN { rs[i] : i \in { k \in 1..Len(rs) : \A m \in 1..(k - 1) : ReadOk(rs[m]) } }

FloodName(result) ==
    BodyName(chunk_info[<<CX, CZ>>].primary_biome, CX, CZ, Cardinality(result))

\* the record line 264 stores for the name
FreshInfo(name) ==
    [connections |-> << >>, biomes_touching |-> {}, biome_adjacent |-> << >>]

WithInfo(name, info) ==
    [n \in DOMAIN waterbody_info \cup {name} |->
        IF n = name THEN info ELSE waterbody_info[n]]

Claim(coords, name) ==
    [c \in DOMAIN waterways \cup coords |->
        IF c \in DOMAIN waterways THEN waterways[c] ELSE name]

WaterFlood ==
    FloodSearch3D(Sample, overlap_chunkstart(CX, CZ), overlap_chunkend(CX, CZ),
                  FLUID, obs_fluid, FALSE)

WaterFloodRecord(result, reads) ==
    [NoFlood EXCEPT !.kind = "fluid",
        !.chunk = <<CX, CZ>>,
        !.lo = overlap_chunkstart(CX, CZ),
        !.hi = overlap_chunkend(CX, CZ),
        !.result = result,
        !.name = FloodName(result),
        !.owned = [c \in result \cap DOMAIN waterways |-> waterways[c]],
        !.before = IF FloodName(result) \in DOMAIN waterbody_info
                   THEN waterbody_info[FloodName(result)].connections
                   ELSE << >>,
        !.reads = reads]

\* the water branch of a sample point, the loop over the result running to
\* its end.  The result list may hold the region in any order, so the
\* owners met can enter `connections` in any order.
ScanWater ==
    /\ pc = "scan"
    /\ IsWaterHit
    /\ LET result == WaterFlood
           name == FloodName(result)
           fresh == result \ DOMAIN waterways
           owners == { waterways[c] : c \in result \cap DOMAIN waterways }
       IN /\ fresh = {} \/ SurroundingOk(CX, CZ)
          /\ chunk_info' = Tagged("water")
          /\ \E conn \in Orders(owners) :
                waterbody_info' = WithInfo(name,
                    [FreshInfo(name) EXCEPT
                        !.connections = conn,
                        !.biomes_touching =
                            IF fresh = {} THEN {}
                            ELSE chunk_info[<<CX, CZ>>].biomes])
          /\ waterways' = Claim(fresh, name)
          /\ lastFlood' = WaterFloodRecord(result,
                IF fresh = {} THEN {} ELSE ReadsMade(CX, CZ))
          /\ Advance(obs_struc, obs_fluid \cup result)
    /\ UNCHANGED <<caching, span, biomeAt, world, heightmap, to_avoid,
                   placeLog, err, nameIn, nameOut, hstart>>

\* the water branch of a sample point in a chunk whose `surrounding`
\* lookup raises IndexError: the loop over the result ends at the first
\* unowned coordinate, after any of the owned ones
ScanWaterIndexError ==
    /\ pc = "scan"
    /\ IsWaterHit
    /\ LET result == WaterFlood
           name == FloodName(result)
           fresh == result \ DOMAIN waterways
           owners == { waterways[c] : c \in result \cap DOMAIN waterways }
       IN /\ fresh # {}
          /\ ~SurroundingOk(CX, CZ)
          /\ chunk_info' = Tagged("water")
          /\ \E met \in SUBSET owners : \E conn \in Orders(met) :
                waterbody_info' = WithInfo(name,
                    [FreshInfo(name) EXCEPT
                        !.connections = conn,
                        !.biomes_touching = chunk_info[<<CX, CZ>>].biomes])
          /\ \E first \in fresh : waterways' = Claim({first}, name)
          /\ lastFlood' = WaterFloodRecord(result, ReadsMade(CX, CZ))
          /\ err' = "IndexError"
          /\ pc' = "aborted"
    /\ UNCHANGED <<caching, span, biomeAt, world, heightmap, cursor,
                   obs_struc, obs_fluid, to_avoid, placeLog, nameIn, nameOut,
                   hstart>>

\* a sample point that is neither a new structure nor new water
ScanSkip ==
    /\ pc = "scan"
    /\ ~IsStructureHit
    /\ ~IsWaterHit
    /\ Advance(obs_struc, obs_fluid)
    /\ UNCHANGED <<caching, span, biomeAt, world, chunk_info, heightmap,
                   to_avoid, waterways, waterbody_info, placeLog, err,
                   lastFlood, nameIn, nameOut, hstart>>

----------------------------------------------------------------------------
(* The end of the script *)

\* input(waterbody_info.keys())
Report ==
    /\ pc = "report"
    /\ pc' = "debug"
    /\ UNCHANGED <<caching, span, biomeAt, world, chunk_info, heightmap,
                   cursor, obs_struc, obs_fluid, to_avoid, waterways,
                   waterbody_info, placeLog, err, lastFlood, nameIn, nameOut,
                   hstart>>

\* debug_chunk_info: the geo.placeVolume call of one chunk
DebugPlaceChunk ==
    /\ pc = "debug"
    /\ placeLog' = Append(placeLog, caching)
    /\ LET nxt == LoopNext(<<CX, CZ>>, ZSPAN)
       IN IF <<CX, CZ>> = LoopLast(XSPAN, ZSPAN)
          THEN pc' = "clear" /\ cursor' = <<0, 0, 0, 0>>
          ELSE pc' = pc /\ cursor' = <<nxt[1], nxt[2], 0, 0>>
    /\ UNCHANGED <<caching, span, biomeAt, world, chunk_info, heightmap,
                   obs_struc, obs_fluid, to_avoid, waterways, waterbody_info,
                   err, lastFlood, nameIn, nameOut, hstart>>

\* debug_chunk_info: input('Enter to clear') and the clearing placeVolume
DebugClear ==
    /\ pc = "clear"
    /\ placeLog' = Append(placeLog, caching)
    /\ pc' = "uncache"
    /\ UNCHANGED <<caching, span, biomeAt, world, chunk_info, heightmap,
                   cursor, obs_struc, obs_fluid, to_avoid, waterways,
                   waterbody_info, err, lastFlood, nameIn, nameOut, hstart>>

\* gi.setCaching(False)
SetCachingOff ==
    /\ pc = "uncache"
    /\ caching' = FALSE
    /\ pc' = "done"
    /\ UNCHANGED <<span, biomeAt, world, chunk_info, heightmap, cursor,
                   obs_struc, obs_fluid, to_avoid, waterways, waterbody_info,
                   placeLog, err, lastFlood, nameIn, nameOut, hstart>>

Next ==
    \/ SetCachingOn
    \/ ChunkBiomeAnalysis
    \/ CalculateTreelessHeightmap
    \/ ScanStructure
    \/ ScanWater
    \/ ScanWaterIndexError
    \/ ScanSkip
    \/ Report
    \/ DebugPlaceChunk
    \/ DebugClear
    \/ SetCachingOff

Spec == Init /\ [][Next]_vars

----------------------------------------------------------------------------
(* Values of the variables a specification does not use *)

NoScript ==
    /\ caching = FALSE
    /\ span = <<0, 0>>
    /\ biomeAt = << >>
    /\ chunk_info = << >>
    /\ cursor = <<0, 0, 0, 0>>
    /\ obs_struc = {}
    /\ obs_fluid = {}
    /\ to_avoid = << >>
    /\ waterways = << >>
    /\ waterbody_info = << >>
    /\ placeLog = << >>
    /\ err = "none"
    /\ lastFlood = NoFlood

scriptVars == <<caching, span, biomeAt, chunk_info, cursor, obs_struc,
                obs_fluid, to_avoid, waterways, waterbody_info, placeLog, err,
                lastFlood>>

----------------------------------------------------------------------------
(* Specification of the body naming alone: any primary biome, chunk and    *)
(* region size                                                             *)

NameBiomes == { Bm_ocean, Bm_deep_ocean, Bm_river, Bm_frozen_river, Bm_swamp,
                Bm_swamp_hills, Bm_plains, Bm_snowy_taiga_hills,
                Bm_swamp_ocean, Bm_empty }
NameCoords == (0..MaxChunkCoord) \cup {3, 5, 12}
NameSizes == {1, 10, LakeSize - 1, LakeSize, LakeSize + 1, 300}

InitName ==
    /\ pc = "name"
    /\ nameIn \in NameBiomes \X NameCoords \X NameCoords \X NameSizes
    /\ nameOut = << >>
    /\ world = << >>
    /\ heightmap = << >>
    /\ hstart = 0
    /\ NoScript

NameBody ==
    /\ pc = "name"
    /\ nameOut' = BodyName(nameIn[1], nameIn[2], nameIn[3], nameIn[4])
    /\ pc' = "named"
    /\ UNCHANGED <<nameIn, world, heightmap, hstart, scriptVars>>

NextName == NameBody

SpecName == InitName /\ [][NextName]_vars

----------------------------------------------------------------------------
(* Specification of the refiner alone: one column of arbitrary blocks,     *)
(* one loop iteration per step                                             *)

ColumnBlocks == { B_stone, B_log, B_leaves, B_air }
Col == <<0, 0>>

InitHeight ==
    /\ pc = "descend"
    /\ \E column \in [WorldMinY..SurfaceY -> ColumnBlocks] :
          world = [c \in {<<AreaX, y, AreaZ>> : y \in WorldMinY..SurfaceY}
                     |-> column[c[2]]]
    /\ hstart \in WorldMinY..(SurfaceY + 1)
    /\ heightmap = [c \in {Col} |-> hstart]
    /\ nameIn = << >>
    /\ nameOut = << >>
    /\ NoScript

\* one iteration of the while loop of column (x, z); the descent below the
\* world is followed for DescentCap blocks
RefineStep(x, z) ==
    /\ pc = "descend"
    /\ LET y == heightmap[<<x, z>>]
           block == GetBlock(AreaX + x, y, AreaZ + z)
       IN IF Strippable(block)
          THEN /\ y > WorldMinY - DescentCap
               /\ heightmap' = [heightmap EXCEPT ![<<x, z>>] = y - 1]
               /\ pc' = pc
          ELSE /\ pc' = "refined"
               /\ heightmap' = heightmap
    /\ UNCHANGED <<world, hstart, nameIn, nameOut, scriptVars>>

NextHeight == RefineStep(Col[1], Col[2])

SpecHeight == InitHeight /\ [][NextHeight]_vars

----------------------------------------------------------------------------
(* C7: the body name is 'ocean-cx-cz' when the primary biome ends in       *)
(* 'ocean'; else 'river-cx-cz' when it is exactly 'river'; else            *)
(* 'swamp-cx-cz' when it starts with 'swamp'; otherwise 'pond-cx-cz' for a *)
(* region of fewer than 256 coordinates and 'lake-cx-cz' from 256 on.      *)

EndsWith(s, w) == Len(s) >= Len(w) /\ SubSeq(s, Len(s) - Len(w) + 1, Len(s)) = w
StartsWith(s, w) == Len(s) >= Len(w) /\ SubSeq(s, 1, Len(w)) = w

ExpectedKind(pbiome, size) ==
    CASE EndsWith(pbiome, <<"o","c","e","a","n">>) -> <<"o","c","e","a","n">>
      [] ~EndsWith(pbiome, <<"o","c","e","a","n">>)
         /\ pbiome = <<"r","i","v","e","r">> -> <<"r","i","v","e","r">>
      [] ~EndsWith(pbiome, <<"o","c","e","a","n">>)
         /\ pbiome # <<"r","i","v","e","r">>
         /\ StartsWith(pbiome, <<"s","w","a","m","p">>) -> <<"s","w","a","m","p">>
      [] OTHER -> IF size >= 256 THEN <<"l","a","k","e">> ELSE <<"p","o","n","d">>

C7_NamingDeterminism ==
    pc = "named" =>
        /\ nameOut = ExpectedKind(nameIn[1], nameIn[4])
                       \o <<"-">> \o Dec(nameIn[2]) \o <<"-">> \o Dec(nameIn[3])
        /\ (nameIn[1] = Bm_deep_ocean /\ nameIn[2] = 3 /\ nameIn[3] = 5)
              => nameOut = <<"o","c","e","a","n","-","3","-","5">>
        /\ (nameIn[1] = Bm_plains /\ nameIn[2] = 0 /\ nameIn[3] = 12
              /\ nameIn[4] = 255)
              => nameOut = <<"p","o","n","d","-","0","-","1","2">>
        /\ (nameIn[1] = Bm_plains /\ nameIn[2] = 0 /\ nameIn[3] = 12
              /\ nameIn[4] = 256)
              => nameOut = <<"l","a","k","e","-","0","-","1","2">>

C7_Witness ==
    /\ pc = "named"
    /\ nameIn = <<Bm_frozen_river, 12, 3, 256>>
    /\ nameOut = <<"l","a","k","e","-","1","2","-","3">>

----------------------------------------------------------------------------
(* C8: for a column with a solid non-foliage block at or below the sampled *)
(* height, the refined height is the elevation of the highest block at or  *)
(* below the sample that is neither a log, nor leaves, nor air.            *)

Ground(b) == b \notin {B_log, B_leaves, B_air, B_void_air, B_cave_air}

GroundLevels == {y \in WorldMinY..hstart : Ground(GetBlock(AreaX, y, AreaZ))}

C8_RefinedHeight ==
    (pc = "refined" /\ GroundLevels # {}) =>
        /\ heightmap[Col] \in GroundLevels
        /\ \A y \in GroundLevels : y <= heightmap[Col]

C8_Witness ==
    /\ pc = "refined"
    /\ hstart >= WorldMinY + 3
    /\ GetBlock(AreaX, hstart, AreaZ) = B_leaves
    /\ GetBlock(AreaX, hstart - 1, AreaZ) = B_leaves
    /\ GetBlock(AreaX, hstart - 2, AreaZ) = B_log
    /\ GetBlock(AreaX, hstart - 3, AreaZ) = B_stone
    /\ heightmap[Col] = hstart - 3

(* C3: the descent never takes the height below the world's minimum        *)
(* elevation.                                                              *)

C3_NeverBelowWorld ==
    pc \in {"descend", "refined"} =>
        \A c \in DOMAIN heightmap : heightmap[c] >= WorldMinY

----------------------------------------------------------------------------
(* C1: during the analysis session no chunk's designations holds both      *)
(* 'water' and 'water-adjacent', nor both 'harsh' and 'flat'.              *)

C1_ExclusiveTags ==
    \A c \in DOMAIN chunk_info :
        LET tags == Range(chunk_info[c].designations)
        IN /\ ~({"water", "water-adjacent"} \subseteq tags)
           /\ ~({"harsh", "flat"} \subseteq tags)

(* C2: a coordinate that has an owner keeps it through a later flood-fill  *)
(* whose region contains it, and that flood-fill records the owner in the  *)
(* new body's connections, once.                                           *)

NoDuplicates(lst) == Cardinality(Range(lst)) = Len(lst)

C2_ClaimOnce ==
    lastFlood.kind = "fluid" =>
        /\ \A c \in DOMAIN lastFlood.owned :
              /\ c \in DOMAIN waterways
              /\ waterways[c] = lastFlood.owned[c]
              /\ lastFlood.owned[c]
                    \in Range(waterbody_info[lastFlood.name].connections)
        /\ NoDuplicates(waterbody_info[lastFlood.name].connections)

(* C4: no placement (geo.placeVolume) is issued while block caching is     *)
(* enabled.                                                                *)

C4_NoCachedPlacement == \A i \in 1..Len(placeLog) : placeLog[i] = FALSE

(* C5: a waterbody_info record is never replaced: from any state to the    *)
(* next, every body keeps its record and its connections only grow.        *)

C5_ConnectionsGrow ==
    [][\A n \in DOMAIN waterbody_info :
          /\ n \in DOMAIN waterbody_info'
          /\ Range(waterbody_info[n].connections)
                \subseteq Range(waterbody_info'[n].connections)]_vars

(* C6: after a body has claimed a coordinate, its biome_adjacent is the    *)
(* union of the primary biomes stored for the diagonal neighbours of the   *)
(* detecting chunk.                                                        *)

DiagonalBiomes(cx, cz) ==
    { chunk_info[r].primary_biome :
        r \in Range(SurroundingReads(cx, cz)) \cap DOMAIN chunk_info }

C6_BiomeAdjacent ==
    (/\ lastFlood.kind = "fluid"
     /\ err = "none"
     /\ \E c \in DOMAIN waterways : waterways[c] = lastFlood.name)
    => Range(waterbody_info[lastFlood.name].biome_adjacent)
          = DiagonalBiomes(lastFlood.chunk[1], lastFlood.chunk[2])

(* C9: every coordinate the structure detection of chunk (cx,cz) marks has *)
(* build-local x in [16cx, 16cx+15] and z in [16cz, 16cz+15], and the box  *)
(* of the water flood-fill reaches one block beyond the chunk on each X/Z  *)
(* face.                                                                   *)

ChunkMinX(cx) == STARTX + 16 * cx
ChunkMaxX(cx) == STARTX + 16 * cx + 15
ChunkMinZ(cz) == STARTZ + 16 * cz
ChunkMaxZ(cz) == STARTZ + 16 * cz + 15

C9_ChunkBounded ==
    LET cx == lastFlood.chunk[1]
        cz == lastFlood.chunk[2]
    IN /\ lastFlood.kind = "structure" =>
             \A c \in lastFlood.result :
                 /\ ChunkMinX(cx) <= c[1] /\ c[1] <= ChunkMaxX(cx)
                 /\ ChunkMinZ(cz) <= c[3] /\ c[3] <= ChunkMaxZ(cz)
       /\ lastFlood.kind = "fluid" =>
             /\ lastFlood.lo[1] = ChunkMinX(cx) - 1
             /\ lastFlood.lo[3] = ChunkMinZ(cz) - 1
             /\ lastFlood.hi[1] = ChunkMaxX(cx) + 1
             /\ lastFlood.hi[3] = ChunkMaxZ(cz) + 1

(* C10: the diagonal-neighbour lookup reads no chunk record outside the    *)
(* grid, and the pass does not end in an index error.                      *)

C10_NeighboursInGrid ==
    /\ err # "IndexError"
    /\ \A r \in lastFlood.reads :
          /\ 0 <= r[1] /\ r[1] < XSPAN
          /\ 0 <= r[2] /\ r[2] < ZSPAN

====
